---- MODULE Spec2Model ----
(***************************************************************************)
(* Model of the task orchestration layer of crawl4ai-web:                  *)
(*   - CrawlerService (app/services/crawler_service.py): the task registry *)
(*     `tasks`, cancel_task and the executor execute_crawl_task;           *)
(*   - the endpoints of app/api/crawler.py that create tasks, dispatch the *)
(*     executor, cancel, and wait synchronously with a timeout;            *)
(*   - the broadcast_* functions of app/api/websocket.py, as the log of    *)
(*     the events the executor publishes;                                  *)
(*   - ConnectionManager and the /ws endpoint of app/api/websocket.py: the *)
(*     connections, the subscriptions and the delivery of the events.      *)
(*                                                                         *)
(* The server runs on one asyncio event loop: the code between two await   *)
(* suspension points runs atomically, so every action below is one such    *)
(* segment of a handler or of the executor coroutine.                      *)
(*                                                                         *)
(* Encodings.  Optional[X]: None is <<>> and a value x is <<x>>.           *)
(* progress is kept in tenths (0, 1, 3, 8, 10 stand for 0.0, 0.1, 0.3,     *)
(* 0.8, 1.0).  datetime.now() reads the logical clock `now`.               *)
(*                                                                         *)
(* asyncio.CancelledError is a BaseException (Python 3.8 and later): the   *)
(* `except Exception` blocks of the executor do not catch it.              *)
(***************************************************************************)
EXTENDS Integers, Sequences, FiniteSets, TLC

\* ---------------------------------------------------------------- bounds
MaxTasks == 1        \* task ids that can be issued
MaxTime == 1         \* last reading of the logical clock
MaxDispatch == 2     \* executions of one task id under duplicate dispatch
MaxConns == 2        \* websocket connections that can be opened
MaxPublishes == 1    \* events a free-standing publisher emits for one task
MaxListed == 3       \* tasks in a registry that is listed; largest limit and offset
MaxBatch == 2        \* urls in a batch request
MaxRecords == 51     \* tasks in a registry whose statistics are asked for

TaskIds == 1..MaxTasks
\* An id no submission ever issued (a caller may still name it).
UnknownId == 0
Slots == 1..MaxDispatch
\* Client ids, in the order in which the endpoint hands them out.
Conns == 1..MaxConns
\* The task ids a client can name in a message: the hub checks none of them.
Topics == TaskIds \cup {UnknownId}

\* The target of the request that created task t.  The code never compares two
\* targets, so each request gets a target of its own.
Url(t) == <<"url", t>>
\* str(e) of an exception raised by the engine, by the engine handle or by the
\* result conversion; the empty string is the str() of e.g. asyncio.TimeoutError().
Messages == {"", "boom"}

\* ------------------------------------------------------------ data model
None == <<>>
Some(x) == <<x>>

PENDING == "pending"
RUNNING == "running"
COMPLETED == "completed"
FAILED == "failed"
CANCELLED == "cancelled"
TaskStatus == {PENDING, RUNNING, COMPLETED, FAILED, CANCELLED}

VARIABLES
    tasks,        \* CrawlerService.tasks: task id -> TaskResponseModel
    request,      \* task id -> the url of the CrawlRequestModel it was created for
    mode,         \* task id -> "bg" (create_crawl_task) or "quick" (quick_crawl)
    pc,           \* task id -> slot -> position of that execution of execute_crawl_task
    dispatched,   \* task id -> number of executions dispatched for it
    events,       \* task id -> sequence of the events published for it
    now,          \* the clock datetime.now() reads
    cancel_ret,   \* the call and return value of the cancel_task call just made, or None
    cancel_ok,    \* task ids for which some cancel_task call has returned True
    active_connections,  \* ConnectionManager.active_connections: its client ids
    task_subscribers,    \* ConnectionManager.task_subscribers: task id -> client ids
    loop,         \* client id -> position of its websocket_endpoint coroutine
    bcast,        \* task id -> slot -> the broadcast that execution is suspended in, or None
    received,     \* client id -> the events send_text has delivered to it
    sent,         \* the client a send failed for in the step just taken, or None
    response,     \* what the read endpoint called in the step just taken answered, or None
    crawler,      \* CrawlerService.crawler: "None", or the engine handle "created" or "started"
    client_id     \* endpoint -> the client_id its websocket_endpoint computed, or None

vars == <<tasks, request, mode, pc, dispatched, events, now, cancel_ret, cancel_ok,
          active_connections, task_subscribers, loop, bcast, received, sent,
          response, crawler, client_id>>

\* Mutant of NewTask: the record is created as already started.
NewTask_Started(t) ==
    [task_id |-> t, status |-> RUNNING, progress |-> 1,
     result |-> None, error |-> None, error_details |-> None,
     created_at |-> now, updated_at |-> now, completed_at |-> None]

\* TaskResponseModel(task_id, status=PENDING, progress=0.0, created_at=now, updated_at=now)
NewTask(t) ==
    [task_id |-> t, status |-> PENDING, progress |-> 0,
     result |-> None, error |-> None, error_details |-> None,
     created_at |-> now, updated_at |-> now, completed_at |-> None]

\* CrawlerService.get_task
get_task(t) == IF t \in DOMAIN tasks THEN Some(tasks[t]) ELSE None

Init ==
    /\ tasks = << >>
    /\ request = << >>
    /\ mode = << >>
    /\ pc = [t \in TaskIds |-> [k \in Slots |-> "idle"]]
    /\ dispatched = [t \in TaskIds |-> 0]
    /\ events = [t \in TaskIds |-> << >>]
    /\ now = 0
    /\ cancel_ret = None
    /\ cancel_ok = {}
    /\ active_connections = {}
    /\ task_subscribers = << >>
    /\ loop = [c \in Conns |-> "new"]
    /\ bcast = [t \in TaskIds |-> [k \in Slots |-> None]]
    /\ received = [c \in Conns |-> << >>]
    /\ sent = None
    /\ response = None
    /\ crawler = "None"
    /\ client_id = [c \in Conns |-> None]

\* A step of the registry or of the executor that calls nothing of the hub.
NoHub ==
    /\ sent' = None
    /\ response' = None
    /\ UNCHANGED <<active_connections, task_subscribers, loop, received, crawler, client_id>>

\* A step of the hub or of a websocket handler: it calls nothing of the registry.
NoExec ==
    /\ cancel_ret' = None
    /\ response' = None
    /\ UNCHANGED <<tasks, request, mode, pc, dispatched, now, cancel_ok, crawler, client_id>>

\* The wall clock advances between any two segments.
Tick ==
    /\ now < MaxTime
    /\ now' = now + 1
    /\ cancel_ret' = None
    /\ NoHub
    /\ UNCHANGED <<tasks, request, mode, pc, dispatched, events, cancel_ok, bcast>>


\* ------------------------------------------------------ notification events
\* websocket.broadcast_task_update: the message carries the status and the
\* progress the record has at the moment of the call.
broadcast_task_update(t, task) ==
    [type |-> "task_update", task_id |-> t,
     status |-> task.status, progress |-> task.progress]

\* websocket.broadcast_task_completed, called with task.result.dict() or {}.
broadcast_task_completed(t, task) ==
    [type |-> "task_completed", task_id |-> t, result |-> task.result]

\* websocket.broadcast_task_error, called with task.error or "Unknown error".
broadcast_task_error(t, task) ==
    [type |-> "task_error", task_id |-> t,
     error |-> IF task.error = None \/ task.error = Some("")
               THEN "Unknown error" ELSE task.error[1]]

\* ------------------------------------------------------------------ hub
\* The state of the ConnectionManager.
Hub == [active_connections |-> active_connections, task_subscribers |-> task_subscribers]

SetHub(h) ==
    /\ active_connections' = h.active_connections
    /\ task_subscribers' = h.task_subscribers

\* Mutant of disconnect: only the connection table is cleaned.
disconnect_KeepSubs(h, c) ==
    [h EXCEPT !.active_connections = @ \ {c}]

\* Mutant of disconnect: a subscriber set that becomes empty is kept.
disconnect_KeepEmpty(h, c) ==
    [active_connections |-> h.active_connections \ {c},
     task_subscribers |-> [t \in DOMAIN h.task_subscribers |-> h.task_subscribers[t] \ {c}]]

\* ConnectionManager.disconnect: the client leaves the connection table and
\* every subscriber set it is in; a set that becomes empty is deleted.
disconnect(h, c) ==
    LET S == h.task_subscribers
        keep == {t \in DOMAIN S : ~(c \in S[t] /\ S[t] = {c})}
    IN  [active_connections |-> h.active_connections \ {c},
         task_subscribers |-> [t \in keep |-> S[t] \ {c}]]

\* ConnectionManager.subscribe_to_task
subscribe_to_task(h, c, t) ==
    LET S == h.task_subscribers
    IN  [h EXCEPT !.task_subscribers =
            [x \in DOMAIN S \cup {t} |->
                IF x = t THEN (IF t \in DOMAIN S THEN S[t] ELSE {}) \cup {c} ELSE S[x]]]

\* Mutant of unsubscribe_from_task: the task's entry is deleted with its set.
unsubscribe_from_task_DropEntry(h, c, t) ==
    LET S == h.task_subscribers
    IN  [h EXCEPT !.task_subscribers = [x \in DOMAIN S \ {t} |-> S[x]]]

\* ConnectionManager.unsubscribe_from_task
unsubscribe_from_task(h, c, t) ==
    LET S == h.task_subscribers
    IN  IF t \notin DOMAIN S
        THEN h
        ELSE IF S[t] \ {c} = {}
             THEN [h EXCEPT !.task_subscribers = [x \in DOMAIN S \ {t} |-> S[x]]]
             ELSE [h EXCEPT !.task_subscribers = [S EXCEPT ![t] = @ \ {c}]]

\* Mutant of send_personal_message: a failed send is swallowed and nothing more.
send_personal_message_NoCleanup(h, c, ok) == h

\* ConnectionManager.send_personal_message, from the return of send_text on: the
\* hub after a send to c that succeeded (ok) or raised.
send_personal_message(h, c, ok) == IF ok THEN h ELSE disconnect(h, c)

\* The subscribers of t to which send_personal_message sends at all: it does
\* nothing for a client id that is not in the connection table.
Reachable(h, t) == h.task_subscribers[t] \cap h.active_connections

\* A broadcast_to_task_subscribers call that is suspended in a send.
\*   msg, cur: the message, and the client whose send_text is awaited;
\*   size:     len() of the set when its iteration began (the set iterator
\*             raises RuntimeError at its next step when len() has changed);
\*             0 once the set under iteration is no longer task_subscribers[t]
\*             (it was emptied and its entry deleted: its len() stays 0);
\*   seen:     the clients the iteration has sent to, cur included;
\*   clean:    the subscribers of t are still what they were at the call;
\*   stayed:   the connections subscribed to t at the call that have been
\*             subscribed and connected ever since.
Observe(b, t, h1) ==
    LET S1 == h1.task_subscribers
    IN  [b EXCEPT !.size = IF t \in DOMAIN S1 THEN @ ELSE 0,
                  !.clean = @ /\ t \in DOMAIN S1 /\ S1[t] = task_subscribers[t],
                  !.stayed = IF t \in DOMAIN S1 THEN @ \cap Reachable(h1, t) ELSE {}]

\* What the broadcasts in flight become when the hub changes to h1.
ObserveAll(h1) ==
    [t \in DOMAIN bcast |-> [k \in Slots |->
        IF bcast[t][k] = None THEN None ELSE Some(Observe(bcast[t][k][1], t, h1))]]

\* broadcast_to_task_subscribers(msg, t) up to its first suspension: None when it
\* returns without one.  The order of iteration of a set is any order.
Begins(h, t, msg) ==
    IF t \notin DOMAIN h.task_subscribers \/ Reachable(h, t) = {}
    THEN {None}
    ELSE {Some([msg |-> msg, cur |-> c, size |-> Cardinality(h.task_subscribers[t]),
                seen |-> {c}, clean |-> TRUE, stayed |-> Reachable(h, t)]) :
            c \in Reachable(h, t)}

\* Mutant of Continue: the loop is left after the first send.
Continue_StopAfterFirst(b, t, h1) == {None}

\* The loop of broadcast_to_task_subscribers after a send returned, the hub being
\* h1: RuntimeError when the set changed size (it leaves the loop and the
\* function); else the next client, or the end.  After a change that kept the
\* size the iteration may miss members.
Continue(b, t, h1) ==
    LET b1 == Observe(b, t, h1)
    IN  IF b1.size = 0 \/ Cardinality(h1.task_subscribers[t]) # b1.size
        THEN {None}
        ELSE LET cand == Reachable(h1, t) \ b1.seen
             IN  {Some([b1 EXCEPT !.cur = c, !.seen = @ \cup {c}]) : c \in cand}
                 \cup (IF cand = {} \/ ~b1.clean THEN {None} ELSE {})

\* _broadcast_task_update / _completed / _error of execution k of task t: the
\* event is built and broadcast_to_task_subscribers runs to its first suspension.
Publish(t, k, e) ==
    /\ events' = [events EXCEPT ![t] = Append(@, e)]
    /\ \E b \in Begins(Hub, t, e) : bcast' = [bcast EXCEPT ![t][k] = b]

\* websocket_endpoint, lines 98-100: a connection is accepted under a new id.
Connect ==
    \E c \in Conns :
        /\ loop[c] = "new"
        /\ \A d \in Conns : d < c => loop[d] # "new"
        /\ loop' = [loop EXCEPT ![c] = "open"]
        /\ active_connections' = active_connections \cup {c}
        /\ sent' = None
        /\ NoExec
        /\ UNCHANGED <<task_subscribers, bcast, received, events>>

\* websocket_endpoint, lines 146-147: receive_text raises WebSocketDisconnect.
Disconnect(c) ==
    /\ loop[c] = "open"
    /\ loop' = [loop EXCEPT ![c] = "closed"]
    /\ LET h1 == disconnect(Hub, c) IN
        /\ SetHub(h1)
        /\ bcast' = ObserveAll(h1)
    /\ sent' = None
    /\ NoExec
    /\ UNCHANGED <<received, events>>

\* A handler that changed the hub to h1 goes on to send its reply to c:
\* send_personal_message suspends in send_text only for a client id that is in
\* the connection table.
Reply(c, h1) ==
    /\ SetHub(h1)
    /\ bcast' = ObserveAll(h1)
    /\ loop' = [loop EXCEPT ![c] = IF c \in h1.active_connections THEN "reply" ELSE "open"]
    /\ sent' = None
    /\ NoExec
    /\ UNCHANGED <<received, events>>

\* handle_subscribe_task, for a message that names task id t.
Subscribe(c, t) ==
    /\ loop[c] = "open"
    /\ Reply(c, subscribe_to_task(Hub, c, t))

\* handle_unsubscribe_task, for a message that names task id t.
Unsubscribe(c, t) ==
    /\ loop[c] = "open"
    /\ Reply(c, unsubscribe_from_task(Hub, c, t))

\* The send of a handler's reply returns or raises; the endpoint then goes back
\* to receive_text, also after a failed send removed the client from the hub.
ReplyDone(c) ==
    /\ loop[c] = "reply"
    /\ \E ok \in BOOLEAN :
        LET h1 == send_personal_message(Hub, c, ok) IN
        /\ SetHub(h1)
        /\ bcast' = ObserveAll(h1)
        /\ sent' = IF ok THEN None ELSE Some(c)
    /\ loop' = [loop EXCEPT ![c] = "open"]
    /\ NoExec
    /\ UNCHANGED <<received, events>>

\* The inbound messages the endpoint has no handler for: a text that is not
\* JSON, a JSON value that is not an object, an object with an unknown or
\* missing type, and a known type whose data is not an object.
MalformedKinds == {"invalid_json", "not_object", "unknown_type", "bad_data"}

\* The error message the endpoint replies with: lines 132-137 for a
\* JSONDecodeError, lines 125-130 for an unknown type, lines 139-144 for any
\* other exception (the AttributeError of .get on a value that is no dict).
ErrorReply(kind) ==
    [type |-> "error",
     message |-> IF kind = "invalid_json" THEN "Invalid JSON format"
                 ELSE IF kind = "unknown_type" THEN "Unknown message type"
                 ELSE "Error processing message"]

\* The endpoint of client c receives a malformed message: no handler touches
\* the hub, and the error reply is handed to send_personal_message, which
\* sends it only to a client that is in the connection table (line 46).
Malformed(c, kind) ==
    /\ loop[c] = "open"
    /\ loop' = [loop EXCEPT ![c] = IF c \in active_connections THEN "reply" ELSE "open"]
    /\ response' = Some([call |-> "ws", client |-> c, kind |-> kind,
                         reply |-> IF c \in active_connections
                                   THEN Some(ErrorReply(kind)) ELSE None])
    /\ cancel_ret' = None
    /\ sent' = None
    /\ UNCHANGED <<tasks, request, mode, pc, dispatched, events, now, cancel_ok,
                   active_connections, task_subscribers, bcast, received, crawler, client_id>>

\* handle_subscribe_task for a subscribe_task message of client c whose data
\* carries task id data[1], or none (data = None): without a task id an error
\* ack and nothing else; with one, subscribe_to_task and then the subscribed
\* ack.  The ack is handed to send_personal_message, which sends it only to a
\* client that is in the connection table (line 46).
handle_subscribe_task(c, data) ==
    /\ loop[c] = "open"
    /\ LET h1 == IF data = None THEN Hub ELSE subscribe_to_task(Hub, c, data[1]) IN
        /\ SetHub(h1)
        /\ bcast' = ObserveAll(h1)
    /\ loop' = [loop EXCEPT ![c] = IF c \in active_connections THEN "reply" ELSE "open"]
    /\ response' = Some([call |-> "subscribe_task", client |-> c, task_id |-> data,
                         reply |-> IF c \notin active_connections THEN None
                                   ELSE IF data = None THEN Some("error")
                                   ELSE Some("subscribed")])
    /\ cancel_ret' = None
    /\ sent' = None
    /\ UNCHANGED <<tasks, request, mode, pc, dispatched, events, now, cancel_ok,
                   received, crawler, client_id>>

\* The iteration of line 57, resumed after the send to b.cur with the hub as h1,
\* raises (RuntimeError: Set changed size during iteration).
Raises(b, t, h1) ==
    LET b1 == Observe(b, t, h1)
    IN  b1.size = 0 \/ Cardinality(h1.task_subscribers[t]) # b1.size

\* Mutant of _broadcast_returns: an exception of the hub reaches the executor.
_broadcast_returns_Propagate(raised) == ~raised

\* _broadcast_task_update, _broadcast_task_completed, _broadcast_task_error:
\* whether the call returns to the executor; "except Exception: pass" makes it
\* return also when the hub raised.
_broadcast_returns(raised) == TRUE

\* A publisher of its own: the n-th update event for task t, as an execution of
\* t publishes them one after the other.
HubPublish(t) ==
    /\ bcast[t][1] = None
    /\ Len(events[t]) < MaxPublishes
    /\ Publish(t, 1, broadcast_task_update(t,
            [status |-> RUNNING, progress |-> Len(events[t]) + 1]))
    /\ sent' = None
    /\ NoExec
    /\ UNCHANGED <<active_connections, task_subscribers, loop, received>>

\* ------------------------------------------------------------- registry
\* The id uuid.uuid4() returns: one never issued before.  Ids are opaque, so the
\* model names them in the order of issue.
FreshId == Cardinality(DOMAIN tasks) + 1

\* CrawlerService.create_task: self.tasks[task_id] = task_response
create_task(t, task) == [x \in DOMAIN tasks \cup {t} |-> IF x = t THEN task ELSE tasks[x]]

\* create_crawl_task (m = "bg") and quick_crawl (m = "quick") up to the dispatch of
\* the executor: a Pending record is stored and one execution is scheduled.
Submit(m) ==
    /\ FreshId \in TaskIds
    /\ LET t == FreshId IN
        /\ tasks' = create_task(t, NewTask(t))
        /\ request' = [x \in DOMAIN request \cup {t} |-> IF x = t THEN Url(t) ELSE request[x]]
        /\ mode' = [x \in DOMAIN mode \cup {t} |-> IF x = t THEN m ELSE mode[x]]
        /\ pc' = [pc EXCEPT ![t][1] = "queued"]
        /\ dispatched' = [dispatched EXCEPT ![t] = 1]
    /\ cancel_ret' = None
    /\ NoHub
    /\ UNCHANGED <<events, now, cancel_ok, bcast>>

\* Mutant of Cancelled: the cancel also resets the progress.
Cancelled_ResetProgress(task) ==
    [task EXCEPT !.status = CANCELLED, !.progress = 0, !.updated_at = now]

\* The record cancel_task leaves behind when the status allows the cancel.
Cancelled(task) == [task EXCEPT !.status = CANCELLED, !.updated_at = now]

\* The statuses cancel_task accepts.
Cancellable == {PENDING, RUNNING}

\* Mutant of cancel_task: only a Running task is accepted ("Cancel a running task").
cancel_task_RunningOnly(t) ==
    IF t \notin DOMAIN tasks
    THEN [tasks |-> tasks, ret |-> FALSE]
    ELSE IF tasks[t].status = RUNNING
         THEN [tasks |-> [tasks EXCEPT ![t] = Cancelled(@)], ret |-> TRUE]
         ELSE [tasks |-> tasks, ret |-> FALSE]

\* Mutant of cancel_task: updated_at is stamped before the status is looked at.
cancel_task_StampFirst(t) ==
    IF t \notin DOMAIN tasks
    THEN [tasks |-> tasks, ret |-> FALSE]
    ELSE IF tasks[t].status \in Cancellable
         THEN [tasks |-> [tasks EXCEPT ![t] = Cancelled(@)], ret |-> TRUE]
         ELSE [tasks |-> [tasks EXCEPT ![t].updated_at = now], ret |-> FALSE]

\* Mutant of cancel_task: an accepted cancel drops the record.
cancel_task_Evicts(t) ==
    IF t \notin DOMAIN tasks
    THEN [tasks |-> tasks, ret |-> FALSE]
    ELSE IF tasks[t].status \in Cancellable
         THEN [tasks |-> [x \in DOMAIN tasks \ {t} |-> tasks[x]], ret |-> TRUE]
         ELSE [tasks |-> tasks, ret |-> FALSE]

\* CrawlerService.cancel_task(t): the registry afterwards and the value returned.
cancel_task(t) ==
    IF t \notin DOMAIN tasks
    THEN [tasks |-> tasks, ret |-> FALSE]
    ELSE IF tasks[t].status \in Cancellable
         THEN [tasks |-> [tasks EXCEPT ![t] = Cancelled(@)], ret |-> TRUE]
         ELSE [tasks |-> tasks, ret |-> FALSE]

\* What a cancel_task call leaves in the registry and in the call record.
DoCancel(t) ==
    LET r == cancel_task(t) IN
    /\ tasks' = r.tasks
    /\ cancel_ret' = Some([task_id |-> t, ret |-> r.ret])
    /\ cancel_ok' = IF r.ret THEN cancel_ok \cup {t} ELSE cancel_ok

\* DELETE /crawl/{task_id}: any caller, any id.
Cancel(t) ==
    /\ DoCancel(t)
    /\ NoHub
    /\ UNCHANGED <<request, mode, pc, dispatched, events, now, bcast>>


\* ------------------------------------------------------------- executor
\* What the engine call can hand back: a page, a result object that reports an
\* error (ErrorResult of _mock_crawl; a success=False result of the real engine),
\* or an object _convert_result cannot read (e.g. media['images'] = None).
EngineOutputs == {"page", "error_page", "malformed"}

\* CrawlerService._convert_result: the normalized result carries the request's
\* url; title and content are taken from the engine's object as they are.
\* It reads no success flag.
_convert_result(out, url) ==
    [url |-> url, title |-> IF out = "error_page" THEN "Error" ELSE "Title"]

\* The exception class recorded as error_details["error_type"].
ErrorType(m) == IF m = "" THEN "TimeoutError" ELSE "Exception"

\* Mutant of MarkRunning: the status is left as it is.
MarkRunning_KeepStatus(task) == [task EXCEPT !.progress = 1, !.updated_at = now]

\* Lines 99-101: the record after the executor marks it Running.
MarkRunning(task) ==
    [task EXCEPT !.status = RUNNING, !.progress = 1, !.updated_at = now]

\* Lines 110-111 and 131-132: a progress checkpoint; the status is not touched.
Checkpoint(task, p) == [task EXCEPT !.progress = p, !.updated_at = now]

\* Mutant of MarkCompleted: the status is left as it is.
MarkCompleted_KeepStatus(task, res) ==
    [task EXCEPT !.progress = 10, !.result = Some(res),
                 !.updated_at = now, !.completed_at = Some(now)]

\* Mutant of MarkCompleted: the result is not stored.
MarkCompleted_NoResult(task, res) ==
    [task EXCEPT !.status = COMPLETED, !.progress = 10,
                 !.updated_at = now, !.completed_at = Some(now)]

\* Lines 139-143: the record after the executor finalizes it.
MarkCompleted(task, res) ==
    [task EXCEPT !.status = COMPLETED, !.progress = 10, !.result = Some(res),
                 !.updated_at = now, !.completed_at = Some(now)]

\* Mutant of MarkFailed: the message is not stored.
MarkFailed_NoError(task, m) ==
    [task EXCEPT !.status = FAILED, !.error_details = Some(ErrorType(m)),
                 !.updated_at = now, !.completed_at = Some(now)]

\* Mutant of MarkFailed: a failed task is shown as fully progressed.
MarkFailed_FullProgress(task, m) ==
    [task EXCEPT !.status = FAILED, !.progress = 10, !.error = Some(m),
                 !.error_details = Some(ErrorType(m)),
                 !.updated_at = now, !.completed_at = Some(now)]

\* Lines 150-160: the record after the except block.
MarkFailed(task, m) ==
    [task EXCEPT !.status = FAILED, !.error = Some(m),
                 !.error_details = Some(ErrorType(m)),
                 !.updated_at = now, !.completed_at = Some(now)]

\* The except block (lines 148-163) of execution k of task t, entered with an
\* exception whose str() is m; it ends suspended in _broadcast_task_error.
Fail(t, k, m) ==
    /\ tasks' = [tasks EXCEPT ![t] = MarkFailed(@, m)]
    /\ Publish(t, k, broadcast_task_error(t, tasks'[t]))
    /\ pc' = [pc EXCEPT ![t][k] = "L163"]

\* Lines 93-104: from the start of the coroutine to its first suspension.
Start(t, k) ==
    /\ pc[t][k] = "queued"
    /\ IF t \notin DOMAIN tasks
       THEN /\ pc' = [pc EXCEPT ![t][k] = "done"]
            /\ UNCHANGED <<tasks, events, bcast>>
       ELSE /\ tasks' = [tasks EXCEPT ![t] = MarkRunning(@)]
            /\ Publish(t, k, broadcast_task_update(t, tasks'[t]))
            /\ pc' = [pc EXCEPT ![t][k] = "L104"]
    /\ cancel_ret' = None
    /\ NoHub
    /\ UNCHANGED <<request, mode, dispatched, now, cancel_ok>>

\* Lines 107-112: the engine handle is acquired (or _get_crawler raises), then the
\* 0.3 checkpoint; suspended in the broadcast and then in the engine call.
Acquire(t, k) ==
    /\ pc[t][k] = "L104"
    /\ bcast[t][k] = None
    /\ \/ /\ tasks' = [tasks EXCEPT ![t] = Checkpoint(@, 3)]
          /\ Publish(t, k, broadcast_task_update(t, tasks'[t]))
          /\ pc' = [pc EXCEPT ![t][k] = "L112"]
       \/ \E m \in Messages : Fail(t, k, m)
    /\ cancel_ret' = None
    /\ NoHub
    /\ UNCHANGED <<request, mode, dispatched, now, cancel_ok>>

\* Lines 115-133: the engine call returns (or raises), then the 0.8 checkpoint.
Engine(t, k) ==
    /\ pc[t][k] = "L112"
    /\ bcast[t][k] = None
    /\ \/ /\ tasks' = [tasks EXCEPT ![t] = Checkpoint(@, 8)]
          /\ Publish(t, k, broadcast_task_update(t, tasks'[t]))
          /\ pc' = [pc EXCEPT ![t][k] = "L133"]
       \/ \E m \in Messages : Fail(t, k, m)
    /\ cancel_ret' = None
    /\ NoHub
    /\ UNCHANGED <<request, mode, dispatched, now, cancel_ok>>

\* Lines 136-146: the engine's object is converted and the task finalized; a
\* conversion that raises enters the except block.  (The object the engine
\* returned is read here for the first time, so it is chosen here.)
Finalize(t, k) ==
    /\ pc[t][k] = "L133"
    /\ bcast[t][k] = None
    /\ \E out \in EngineOutputs :
        IF out = "malformed"
        THEN Fail(t, k, "boom")
        ELSE /\ tasks' = [tasks EXCEPT
                            ![t] = MarkCompleted(@, _convert_result(out, request[t]))]
             /\ Publish(t, k, broadcast_task_completed(t, tasks'[t]))
             /\ pc' = [pc EXCEPT ![t][k] = "L146"]
    /\ cancel_ret' = None
    /\ NoHub
    /\ UNCHANGED <<request, mode, dispatched, now, cancel_ok>>

\* Mutant of Return: an exception of the completion broadcast reaches the
\* except block.
Return_Raises(t, k) ==
    /\ pc[t][k] \in {"L146", "L163"}
    /\ bcast[t][k] = None
    /\ IF pc[t][k] = "L146"
       THEN Fail(t, k, "boom")
       ELSE /\ pc' = [pc EXCEPT ![t][k] = "done"]
            /\ UNCHANGED <<tasks, events, bcast>>
    /\ cancel_ret' = None
    /\ NoHub
    /\ UNCHANGED <<request, mode, dispatched, now, cancel_ok>>

\* The last broadcast returns and the coroutine ends.
Return(t, k) ==
    /\ pc[t][k] \in {"L146", "L163"}
    /\ bcast[t][k] = None
    /\ pc' = [pc EXCEPT ![t][k] = "done"]
    /\ cancel_ret' = None
    /\ NoHub
    /\ UNCHANGED <<tasks, request, mode, dispatched, events, now, cancel_ok, bcast>>

\* The send a broadcast is suspended in returns (the event is delivered) or
\* raises, and the loop of broadcast_to_task_subscribers goes on to its next
\* suspension or to its end.  A send to a connection whose endpoint has seen the
\* disconnect raises.
SendDone(t, k) ==
    /\ bcast[t][k] # None
    /\ LET b == bcast[t][k][1] IN
       \E ok \in BOOLEAN :
        /\ ok => loop[b.cur] # "closed"
        /\ LET h1 == send_personal_message(Hub, b.cur, ok) IN
            /\ SetHub(h1)
            /\ \E nb \in Continue(b, t, h1) :
                /\ bcast' = [ObserveAll(h1) EXCEPT ![t][k] = nb]
                /\ IF /\ nb = None
                      /\ ~_broadcast_returns(Raises(b, t, h1))
                      /\ t \in DOMAIN tasks
                      /\ pc[t][k] \in {"L104", "L112", "L133", "L146"}
                   THEN /\ tasks' = [tasks EXCEPT ![t] = MarkFailed(@, "boom")]
                        /\ pc' = [pc EXCEPT ![t][k] = "L163"]
                   ELSE UNCHANGED <<tasks, pc>>
        /\ received' = IF ok THEN [received EXCEPT ![b.cur] = Append(@, b.msg)]
                       ELSE received
        /\ sent' = IF ok THEN None ELSE Some(b.cur)
    /\ cancel_ret' = None
    /\ response' = None
    /\ UNCHANGED <<request, mode, dispatched, now, cancel_ok, loop, events, crawler, client_id>>

\* ------------------------------------------------------- connection ids
\* In the actions above a connection's id is taken to be one no other
\* connection has, and the endpoint is named by it.  Here the id is what line
\* 98 makes it: the reading of the clock, and the endpoints of MaxConns
\* sockets are told apart from their ids.

\* The endpoints that have been accepted and have not seen WebSocketDisconnect.
Live == {"open", "reply"}

\* Line 98: client_id = f"client_{datetime.now().timestamp()}", then the
\* endpoint suspends in websocket.accept() (line 26).
ReadClock(e) ==
    /\ loop[e] = "new"
    /\ \A d \in Conns : d < e => loop[d] # "new"
    /\ client_id' = [client_id EXCEPT ![e] = Some(now)]
    /\ loop' = [loop EXCEPT ![e] = "L26"]
    /\ cancel_ret' = None
    /\ sent' = None
    /\ response' = None
    /\ UNCHANGED <<tasks, request, mode, pc, dispatched, events, now, cancel_ok,
                   active_connections, task_subscribers, bcast, received, crawler>>

\* ConnectionManager.connect, line 27: self.active_connections[client_id] =
\* websocket, whatever the table holds under that id.
Accepted(e) ==
    /\ loop[e] = "L26"
    /\ active_connections' = active_connections \cup {client_id[e][1]}
    /\ loop' = [loop EXCEPT ![e] = "open"]
    /\ cancel_ret' = None
    /\ sent' = None
    /\ response' = None
    /\ UNCHANGED <<tasks, request, mode, pc, dispatched, events, now, cancel_ok,
                   task_subscribers, bcast, received, crawler, client_id>>

\* handle_subscribe_task of endpoint e for task id t: the subscription is made
\* under the endpoint's client_id and the ack is handed to
\* send_personal_message, which sends to the socket the table holds under it.
SubscribeAs(e, t) ==
    /\ loop[e] = "open"
    /\ LET id == client_id[e][1]
           h1 == subscribe_to_task(Hub, id, t) IN
        /\ SetHub(h1)
        /\ bcast' = ObserveAll(h1)
        /\ loop' = [loop EXCEPT ![e] = IF id \in h1.active_connections
                                       THEN "reply" ELSE "open"]
    /\ cancel_ret' = None
    /\ sent' = None
    /\ response' = None
    /\ UNCHANGED <<tasks, request, mode, pc, dispatched, events, now, cancel_ok,
                   received, crawler, client_id>>

\* The send of the ack returns or raises; a failed send removes the id.
AckDone(e) ==
    /\ loop[e] = "reply"
    /\ \E ok \in BOOLEAN :
        LET h1 == send_personal_message(Hub, client_id[e][1], ok) IN
        /\ SetHub(h1)
        /\ bcast' = ObserveAll(h1)
        /\ sent' = IF ok THEN None ELSE Some(client_id[e][1])
    /\ loop' = [loop EXCEPT ![e] = "open"]
    /\ cancel_ret' = None
    /\ response' = None
    /\ UNCHANGED <<tasks, request, mode, pc, dispatched, events, now, cancel_ok,
                   received, crawler, client_id>>

\* Lines 146-147: receive_text raises WebSocketDisconnect and the endpoint
\* calls manager.disconnect(client_id).
Leave(e) ==
    /\ loop[e] = "open"
    /\ loop' = [loop EXCEPT ![e] = "closed"]
    /\ LET h1 == disconnect(Hub, client_id[e][1]) IN
        /\ SetHub(h1)
        /\ bcast' = ObserveAll(h1)
    /\ cancel_ret' = None
    /\ sent' = None
    /\ response' = None
    /\ UNCHANGED <<tasks, request, mode, pc, dispatched, events, now, cancel_ok,
                   received, crawler, client_id>>

\* ------------------------------------------------------------- real engine
\* Lines 107-112 with the engine library present (CRAWL4AI_AVAILABLE): in
\* _get_crawler a task that finds self.crawler None stores a new handle and
\* suspends in its start(); one that finds a handle takes it as it is and
\* goes on to the 0.3 checkpoint and, after the broadcast, into crawler.arun.
GetCrawler(t, k) ==
    /\ pc[t][k] = "L104"
    /\ bcast[t][k] = None
    /\ IF crawler = "None"
       THEN /\ crawler' = "created"
            /\ pc' = [pc EXCEPT ![t][k] = "L42"]
            /\ UNCHANGED <<tasks, events, bcast>>
       ELSE /\ crawler' = crawler
            /\ tasks' = [tasks EXCEPT ![t] = Checkpoint(@, 3)]
            /\ Publish(t, k, broadcast_task_update(t, tasks'[t]))
            /\ pc' = [pc EXCEPT ![t][k] = "L112"]
    /\ cancel_ret' = None
    /\ sent' = None
    /\ response' = None
    /\ UNCHANGED <<request, mode, dispatched, now, cancel_ok,
                   active_connections, task_subscribers, loop, received, client_id>>

\* Line 42: start() returns, and the task goes on as above, or raises into the
\* except block of the executor; self.crawler keeps the handle either way.
StartReturns(t, k) ==
    /\ pc[t][k] = "L42"
    /\ \/ /\ crawler' = "started"
          /\ tasks' = [tasks EXCEPT ![t] = Checkpoint(@, 3)]
          /\ Publish(t, k, broadcast_task_update(t, tasks'[t]))
          /\ pc' = [pc EXCEPT ![t][k] = "L112"]
       \/ /\ crawler' = crawler
          /\ \E m \in Messages : Fail(t, k, m)
    /\ cancel_ret' = None
    /\ sent' = None
    /\ response' = None
    /\ UNCHANGED <<request, mode, dispatched, now, cancel_ok,
                   active_connections, task_subscribers, loop, received, client_id>>

\* ------------------------------------------------- synchronous wait (quick)
\* The executor coroutine of t is suspended in an await: in _get_crawler (line
\* 107, after the broadcast of line 104 returned), in the engine call (lines
\* 115-126, after the broadcast of line 112 returned), or in a send of one of
\* its publishes.  A publish that nobody is subscribed to does not suspend.
Suspended(t) == pc[t][1] \in {"L104", "L112"} \/ bcast[t][1] # None

\* Mutant of Timeout: the executor's except block catches the cancellation.
Timeout_Caught(t) ==
    /\ t \in DOMAIN tasks
    /\ mode[t] = "quick"
    /\ Suspended(t)
    /\ tasks' = [tasks EXCEPT ![t] = MarkFailed(@, "")]
    /\ pc' = [pc EXCEPT ![t][1] = "L530"]
    /\ bcast' = [bcast EXCEPT ![t][1] = None]
    /\ cancel_ret' = None
    /\ NoHub
    /\ UNCHANGED <<request, mode, dispatched, events, now, cancel_ok>>

\* asyncio.wait_for runs out of time: it cancels the executor's coroutine, which
\* is suspended in an await; CancelledError is no Exception, so no except block
\* of the executor runs and the coroutine ends where it is.
Timeout(t) ==
    /\ t \in DOMAIN tasks
    /\ mode[t] = "quick"
    /\ Suspended(t)
    /\ pc' = [pc EXCEPT ![t][1] = "L530"]
    /\ bcast' = [bcast EXCEPT ![t][1] = None]
    /\ cancel_ret' = None
    /\ NoHub
    /\ UNCHANGED <<tasks, request, mode, dispatched, events, now, cancel_ok>>

\* Lines 530-536 of quick_crawl: the TimeoutError handler cancels the task and
\* answers 408.
TimeoutCancel(t) ==
    /\ pc[t][1] = "L530"
    /\ DoCancel(t)
    /\ pc' = [pc EXCEPT ![t][1] = "timed_out"]
    /\ NoHub
    /\ UNCHANGED <<request, mode, dispatched, events, now, bcast>>

\* ------------------------------------------------------- duplicate dispatch
\* A second call of execute_crawl_task for an id that was dispatched already.
Redispatch(t) ==
    /\ t \in DOMAIN tasks
    /\ mode[t] = "bg"
    /\ dispatched[t] >= 1
    /\ dispatched[t] < MaxDispatch
    /\ pc' = [pc EXCEPT ![t][dispatched[t] + 1] = "queued"]
    /\ dispatched' = [dispatched EXCEPT ![t] = @ + 1]
    /\ cancel_ret' = None
    /\ NoHub
    /\ UNCHANGED <<tasks, request, mode, events, now, cancel_ok, bcast>>

\* -------------------------------------------------------------------- batch
\* The ids single submissions and one batch can be given.
AllIds == 1..(MaxTasks + MaxBatch)

\* The ids the tasks of a batch get when it is the first request.
BatchIds == 1..MaxBatch

\* The urls of a batch request that BatchCrawlRequestModel accepts: each is an
\* HttpUrl; "blocked" is one that the validator of CrawlRequestModel rejects
\* (e.g. http://127.0.0.1/), "ok" one that it accepts.
BatchUrls == UNION {[1..n -> {"ok", "blocked"}] : n \in 1..MaxBatch}

\* The number of urls the loop of create_batch_crawl_task gets through: all of
\* them, or those before the first for which CrawlRequestModel(url=url) raises.
Stored(urls) ==
    LET bad == {i \in 1..Len(urls) : urls[i] = "blocked"}
    IN  IF bad = {} THEN Len(urls)
        ELSE (CHOOSE i \in bad : \A j \in bad : i <= j) - 1

\* POST /crawl/batch: for each url in turn an id is drawn, the request built,
\* the Pending record stored and the execution added to the background tasks.
\* These are run after the answer is sent; when the handler raises, it answers
\* 500 (lines 126-130) and they are dropped.
create_batch_crawl_task(urls) ==
    LET new == FreshId..(FreshId + Stored(urls) - 1)
        ok == Stored(urls) = Len(urls)
    IN  /\ FreshId + Len(urls) - 1 \in AllIds
        /\ tasks' = [x \in DOMAIN tasks \cup new |->
                        IF x \in new THEN NewTask(x) ELSE tasks[x]]
        /\ request' = [x \in DOMAIN request \cup new |->
                        IF x \in new THEN Url(x) ELSE request[x]]
        /\ mode' = [x \in DOMAIN mode \cup new |->
                        IF x \in new THEN "bg" ELSE mode[x]]
        /\ pc' = [x \in DOMAIN pc |->
                        IF ok /\ x \in new THEN [pc[x] EXCEPT ![1] = "queued"]
                        ELSE pc[x]]
        /\ dispatched' = [x \in DOMAIN dispatched |->
                        IF ok /\ x \in new THEN 1 ELSE dispatched[x]]
        /\ response' = Some([call |-> "batch", urls |-> urls,
                             code |-> IF ok THEN 200 ELSE 500,
                             task_ids |-> IF ok THEN [i \in 1..Len(urls) |-> FreshId + i - 1]
                                          ELSE << >>])
        /\ cancel_ret' = None
        /\ sent' = None
        /\ UNCHANGED <<events, now, cancel_ok, active_connections,
                       task_subscribers, loop, bcast, received, crawler, client_id>>

\* The service before a batch request, with room for the batch's tasks.
InitBatch ==
    /\ tasks = << >>
    /\ request = << >>
    /\ mode = << >>
    /\ pc = [t \in AllIds |-> [k \in Slots |-> "idle"]]
    /\ dispatched = [t \in AllIds |-> 0]
    /\ events = [t \in AllIds |-> << >>]
    /\ now = 0
    /\ cancel_ret = None
    /\ cancel_ok = {}
    /\ active_connections = {}
    /\ task_subscribers = << >>
    /\ loop = [c \in Conns |-> "new"]
    /\ bcast = [t \in AllIds |-> [k \in Slots |-> None]]
    /\ received = [c \in Conns |-> << >>]
    /\ sent = None
    /\ response = None
    /\ crawler = "None"
    /\ client_id = [c \in Conns |-> None]

\* ---------------------------------------------------------------- task list
\* list(self.tasks.values()): the records in the order they were stored, which
\* is the order in which their ids were issued.
Values == [i \in 1..Cardinality(DOMAIN tasks) |-> tasks[i]]

\* "if status:" -- None and the empty string select nothing.
Filters(status) == status # None /\ status # Some("")

\* Mutant of SortNewestFirst: the list is left in the order of storage.
Unsorted(s) == s

\* tasks.sort(key=lambda x: x.created_at, reverse=True): newest first, records
\* of equal created_at in the order they had.  The place of a record is one
\* more than the number of records that are newer, or as old and before it.
SortNewestFirst(s) ==
    LET before(i) == {j \in 1..Len(s) :
                        \/ s[j].created_at > s[i].created_at
                        \/ s[j].created_at = s[i].created_at /\ j < i}
    IN  [p \in 1..Len(s) |-> s[CHOOSE i \in 1..Len(s) : Cardinality(before(i)) = p - 1]]

\* s[offset:offset + limit]
Slice(s, offset, limit) ==
    LET last == IF offset + limit < Len(s) THEN offset + limit ELSE Len(s)
    IN  [i \in 1..(IF last > offset THEN last - offset ELSE 0) |-> s[offset + i]]

\* CrawlerService.list_tasks(status, limit, offset)
service_list_tasks(status, limit, offset) ==
    LET filtered == IF Filters(status)
                    THEN SelectSeq(Values, LAMBDA x : x.status = status[1])
                    ELSE Values
    IN  Slice(SortNewestFirst(filtered), offset, limit)

\* Mutant of list_tasks: has_more looks at whether the page is empty.
list_tasks_NonEmpty(status, limit, offset) ==
    LET page == service_list_tasks(status, limit, offset)
    IN  [call |-> "list", status |-> status, tasks |-> page, total |-> Len(page),
         limit |-> limit, offset |-> offset, has_more |-> Len(page) > 0]

\* GET /crawl/ (list_tasks of the API): the body of the answer, with the status
\* filter of the request it answers.
list_tasks(status, limit, offset) ==
    LET page == service_list_tasks(status, limit, offset)
    IN  [call |-> "list", status |-> status, tasks |-> page, total |-> Len(page),
         limit |-> limit, offset |-> offset, has_more |-> Len(page) = limit]

\* A step of a read endpoint: it answers and changes nothing.
Answer(r) ==
    /\ response' = Some(r)
    /\ cancel_ret' = None
    /\ sent' = None
    /\ UNCHANGED <<tasks, request, mode, pc, dispatched, events, now, cancel_ok,
                   active_connections, task_subscribers, loop, bcast, received, crawler, client_id>>

\* Mutant of get_task_result: the status of the task is not looked at.
get_task_result_AnyStatus(t) ==
    LET task == get_task(t) IN
    IF task = None
    THEN [call |-> "result", task_id |-> t, code |-> 404]
    ELSE IF task[1].result = None
    THEN [call |-> "result", task_id |-> t, code |-> 404]
    ELSE [call |-> "result", task_id |-> t, code |-> 200,
          content |-> <<"json", task[1].result[1]>>]

\* GET /crawl/{task_id}/result: 404 for an unknown id, 400 for a task that is
\* not Completed, 404 for one without a result, else the result in the format
\* asked for (here: json).
get_task_result(t) ==
    LET task == get_task(t) IN
    IF task = None
    THEN [call |-> "result", task_id |-> t, code |-> 404]
    ELSE IF task[1].status # COMPLETED
    THEN [call |-> "result", task_id |-> t, code |-> 400]
    ELSE IF task[1].result = None
    THEN [call |-> "result", task_id |-> t, code |-> 404]
    ELSE [call |-> "result", task_id |-> t, code |-> 200,
          content |-> <<"json", task[1].result[1]>>]

\* GET /{task_id}/download: the same checks, then the result as a file.
download_task_result(t) ==
    LET task == get_task(t) IN
    IF task = None
    THEN [call |-> "download", task_id |-> t, code |-> 404]
    ELSE IF task[1].status # COMPLETED
    THEN [call |-> "download", task_id |-> t, code |-> 400]
    ELSE IF task[1].result = None
    THEN [call |-> "download", task_id |-> t, code |-> 404]
    ELSE [call |-> "download", task_id |-> t, code |-> 200,
          content |-> <<"file", <<"json", task[1].result[1]>>>>]

\* A request for the result of task id t, and one for its download.
GetResult(t) == Answer(get_task_result(t))
Download(t) == Answer(download_task_result(t))

\* The status filters a request can carry: none, an empty one, a status, or a
\* string that is no status.
StatusFilters == {None} \cup {Some(f) : f \in TaskStatus \cup {"", "bogus"}}

\* A request GET /crawl/?status=..&limit=..&offset=.. (limit >= 1, offset >= 0).
ListCall(status, limit, offset) == Answer(list_tasks(status, limit, offset))

\* A record as an execution that has ended, or has not, leaves it: created at
\* cr, in status st.
Listed(t, st, cr) ==
    [task_id |-> t, status |-> st,
     progress |-> IF st = PENDING THEN 0 ELSE IF st = COMPLETED THEN 10 ELSE 3,
     result |-> IF st = COMPLETED THEN Some(_convert_result("page", Url(t))) ELSE None,
     error |-> IF st = FAILED THEN Some("boom") ELSE None,
     error_details |-> IF st = FAILED THEN Some(ErrorType("boom")) ELSE None,
     created_at |-> cr, updated_at |-> cr,
     completed_at |-> IF st \in {COMPLETED, FAILED} THEN Some(cr) ELSE None]

\* The registries of up to MaxListed tasks: ids in the order of issue, created
\* at clock readings that do not go back, each in any status.
Registries ==
    UNION {{[t \in 1..n |-> Listed(t, st[t], cr[t])] :
                st \in [1..n -> TaskStatus],
                cr \in {f \in [1..n -> 0..MaxTime] :
                            \A i \in 1..n, j \in 1..n : i < j => f[i] <= f[j]}} :
           n \in 0..MaxListed}

\* The service with some registry, at rest.
InitList ==
    /\ tasks \in Registries
    /\ request = [t \in DOMAIN tasks |-> Url(t)]
    /\ mode = [t \in DOMAIN tasks |-> "bg"]
    /\ pc = [t \in TaskIds |-> [k \in Slots |-> "idle"]]
    /\ dispatched = [t \in TaskIds |-> 0]
    /\ events = [t \in TaskIds |-> << >>]
    /\ now = MaxTime
    /\ cancel_ret = None
    /\ cancel_ok = {}
    /\ active_connections = {}
    /\ task_subscribers = << >>
    /\ loop = [c \in Conns |-> "new"]
    /\ bcast = [t \in TaskIds |-> [k \in Slots |-> None]]
    /\ received = [c \in Conns |-> << >>]
    /\ sent = None
    /\ response = None
    /\ crawler = "None"
    /\ client_id = [c \in Conns |-> None]

\* ------------------------------------------------------------ specifications
Step(t, k) ==
    \/ Start(t, k)
    \/ Acquire(t, k)
    \/ Engine(t, k)
    \/ Finalize(t, k)
    \/ Return(t, k)

\* The program as its endpoints drive it, without the clock: every task id is
\* dispatched once.
Handlers ==
    \/ \E m \in {"bg", "quick"} : Submit(m)
    \/ \E t \in TaskIds \cup {UnknownId} : Cancel(t)
    \/ \E t \in TaskIds, k \in Slots : Step(t, k)
    \/ \E t \in TaskIds : Timeout(t)
    \/ \E t \in TaskIds : TimeoutCancel(t)

Next ==
    \/ Tick
    \/ Handlers

Spec == Init /\ [][Next]_vars

\* The same program at one reading of the clock.  No guard and no value other
\* than a timestamp depends on the clock, so the statuses, progress values,
\* results, errors and events that can be reached are those of Spec.
SpecUntimed == Init /\ [][Handlers]_vars

\* A caller of the service that calls execute_crawl_task again for an id.
NextDup ==
    \/ Next
    \/ \E t \in TaskIds : Redispatch(t)

SpecDup == Init /\ [][NextDup]_vars

\* The websocket side of the program: clients that connect, subscribe,
\* unsubscribe and leave.
NextSubs ==
    \/ Connect
    \/ \E c \in Conns : Disconnect(c)
    \/ \E c \in Conns, t \in Topics : Subscribe(c, t)
    \/ \E c \in Conns, t \in Topics : Unsubscribe(c, t)
    \/ \E c \in Conns : ReplyDone(c)

\* The connection and subscription handling alone, with nothing published.
SpecSubs == Init /\ [][NextSubs]_vars

\* The same with clients that also send messages the endpoint cannot handle.
NextMsg ==
    \/ NextSubs
    \/ \E c \in Conns, kind \in MalformedKinds : Malformed(c, kind)

SpecMsg == Init /\ [][NextMsg]_vars

\* Clients whose subscribe_task messages may lack the task id.
NextAck ==
    \/ Connect
    \/ \E c \in Conns : Disconnect(c)
    \/ \E c \in Conns, data \in {None} \cup {Some(t) : t \in Topics} :
          handle_subscribe_task(c, data)
    \/ \E c \in Conns, t \in Topics : Unsubscribe(c, t)
    \/ \E c \in Conns : ReplyDone(c)

SpecAck == Init /\ [][NextAck]_vars

\* The same with events published for the tasks.
NextHub ==
    \/ NextSubs
    \/ \E t \in TaskIds : HubPublish(t)
    \/ \E t \in TaskIds, k \in Slots : SendDone(t, k)

SpecHub == Init /\ [][NextHub]_vars

\* Background tasks that run uncancelled, watched by clients that connect and
\* subscribe and do not leave of their own accord.
NextWatch ==
    \/ Submit("bg")
    \/ \E t \in TaskIds, k \in Slots : Step(t, k)
    \/ Connect
    \/ \E c \in Conns, t \in TaskIds : Subscribe(c, t)
    \/ \E c \in Conns : ReplyDone(c)
    \/ \E t \in TaskIds, k \in Slots : SendDone(t, k)

SpecWatch == Init /\ [][NextWatch]_vars

\* The client whose socket takes no more data: a send_text to it, awaited at
\* line 48 with no time limit, neither returns nor raises.
DeadListener == CHOOSE c \in Conns : \A d \in Conns : c <= d

\* The send a broadcast is suspended in is one to client c, and it ends.
SendDoneTo(t, k, c) == SendDone(t, k) /\ bcast[t][k][1].cur = c

\* SpecWatch as the event loop schedules it: a coroutine that can go on does,
\* the engine call returns, and a send to any client but DeadListener returns
\* or raises.
SpecStall ==
    /\ Init
    /\ [][NextWatch]_vars
    /\ \A t \in TaskIds, k \in Slots :
        /\ WF_vars(Step(t, k))
        /\ \A c \in Conns \ {DeadListener} : WF_vars(SendDoneTo(t, k, c))

\* Synchronous crawls (POST /quick) that clients watch: a client that read the
\* task's id from the task list subscribes to it while the caller waits.
NextSync ==
    \/ Submit("quick")
    \/ \E t \in TaskIds : Cancel(t)
    \/ \E t \in TaskIds, k \in Slots : Step(t, k)
    \/ \E t \in TaskIds : Timeout(t)
    \/ \E t \in TaskIds : TimeoutCancel(t)
    \/ Connect
    \/ \E c \in Conns, t \in TaskIds : Subscribe(c, t)
    \/ \E c \in Conns : ReplyDone(c)
    \/ \E t \in TaskIds, k \in Slots : SendDone(t, k)

SpecSync == Init /\ [][NextSync]_vars

\* The program of SpecUntimed with callers that ask for results at any moment.
NextRead ==
    \/ Handlers
    \/ \E t \in TaskIds \cup {UnknownId} : GetResult(t)
    \/ \E t \in TaskIds \cup {UnknownId} : Download(t)

SpecRead == Init /\ [][NextRead]_vars

\* Single submissions, then one batch, and the executions of their tasks.
NextBatch ==
    \/ Submit("bg")
    \/ response = None /\ \E urls \in BatchUrls : create_batch_crawl_task(urls)
    \/ \E t \in AllIds, k \in Slots : Step(t, k)

SpecBatch == InitBatch /\ [][NextBatch]_vars

\* The operations on the registry together with the hub: submissions,
\* executions, cancels, reads of the list, and clients that come, subscribe
\* and go.
NextAll ==
    \/ Submit("bg")
    \/ \E t \in TaskIds : Cancel(t)
    \/ \E t \in TaskIds, k \in Slots : Step(t, k)
    \/ ListCall(None, 1, 0)
    \/ Connect
    \/ \E c \in Conns : Disconnect(c)
    \/ \E c \in Conns, t \in TaskIds : Subscribe(c, t)
    \/ \E c \in Conns : ReplyDone(c)
    \/ \E t \in TaskIds, k \in Slots : SendDone(t, k)

SpecAll == Init /\ [][NextAll]_vars

\* Background tasks that run uncancelled, watched by clients that subscribe,
\* unsubscribe and leave, or are removed when a send to them fails.
NextDrop ==
    \/ Submit("bg")
    \/ \E t \in TaskIds, k \in Slots : Step(t, k)
    \/ Connect
    \/ \E c \in Conns : Disconnect(c)
    \/ \E c \in Conns, t \in TaskIds : Subscribe(c, t)
    \/ \E c \in Conns, t \in TaskIds : Unsubscribe(c, t)
    \/ \E c \in Conns : ReplyDone(c)
    \/ \E t \in TaskIds, k \in Slots : SendDone(t, k)

SpecDrop == Init /\ [][NextDrop]_vars

\* The program as its endpoints drive it, at one reading of the clock, with one
\* client that subscribes to the tasks.
NextLive ==
    \/ Handlers
    \/ (\A c \in Conns : loop[c] = "new") /\ Connect
    \/ \E c \in Conns, t \in TaskIds : Subscribe(c, t)
    \/ \E c \in Conns : ReplyDone(c)
    \/ \E t \in TaskIds, k \in Slots : SendDone(t, k)

\* The event loop runs every coroutine that is ready: an executor that is not
\* suspended in a send goes on (the engine call returns or raises), a send to a
\* client returns or raises, and the handler of a timed-out wait goes on to its
\* cancel.  Requests, connections and timeouts come when they come.
SpecLive ==
    /\ Init
    /\ [][NextLive]_vars
    /\ \A t \in TaskIds, k \in Slots : WF_vars(Step(t, k))
    /\ \A t \in TaskIds, k \in Slots : WF_vars(SendDone(t, k))
    /\ \A t \in TaskIds : WF_vars(TimeoutCancel(t))

\* A step of an execution when the engine library is present.
RealStep(t, k) ==
    \/ Start(t, k)
    \/ GetCrawler(t, k)
    \/ StartReturns(t, k)
    \/ Engine(t, k)
    \/ Finalize(t, k)
    \/ Return(t, k)

\* The tasks of a batch, executed concurrently with the engine library present.
NextEngine ==
    \/ response = None /\ \E urls \in BatchUrls : create_batch_crawl_task(urls)
    \/ \E t \in BatchIds, k \in Slots : RealStep(t, k)

SpecEngine == InitBatch /\ [][NextEngine]_vars

\* Sockets that are opened, subscribe and are closed while the clock runs.
NextAccept ==
    \/ Tick
    \/ \E e \in Conns : ReadClock(e)
    \/ \E e \in Conns : Accepted(e)
    \/ \E e \in Conns, t \in TaskIds : SubscribeAs(e, t)
    \/ \E e \in Conns : AckDone(e)
    \/ \E e \in Conns : Leave(e)

SpecAccept == Init /\ [][NextAccept]_vars

\* The tasks of a batch, with one client that subscribes to any of them, while
\* the first ones issued are executed and the others still wait for their turn.
NextIso ==
    \/ response = None /\ \E urls \in BatchUrls : create_batch_crawl_task(urls)
    \/ \E t \in BatchIds : Cancel(t)
    \/ \E t \in TaskIds, k \in Slots : Step(t, k)
    \/ (\A c \in Conns : loop[c] = "new") /\ Connect
    \/ \E c \in Conns, t \in BatchIds : Subscribe(c, t)
    \/ \E c \in Conns : ReplyDone(c)
    \/ \E t \in TaskIds, k \in Slots : SendDone(t, k)

SpecIso == InitBatch /\ [][NextIso]_vars

\* A request for the task list against a registry at rest.  The registry does
\* not change, so one request is followed: a later one is answered as it would
\* have been as the first.
NextList ==
    /\ response = None
    /\ \E status \in StatusFilters, limit \in 1..MaxListed, offset \in 0..MaxListed :
          ListCall(status, limit, offset)

SpecList == InitList /\ [][NextList]_vars

\* ------------------------------------------------------------------- stats
\* The limit of CrawlerService.list_tasks when the caller passes none.
DefaultLimit == 50

\* GET /crawl/stats: the numbers counted over what list_tasks() returns when
\* called without arguments.  success_rate, average_crawl_time and
\* last_24h_tasks are computed from the same list and are left out.
get_crawl_stats ==
    LET all_tasks == service_list_tasks(None, DefaultLimit, 0)
        found == {all_tasks[i].status : i \in 1..Len(all_tasks)}
    IN  [call |-> "stats",
         total_tasks |-> Len(all_tasks),
         status_breakdown |->
            [st \in found |->
                Cardinality({i \in 1..Len(all_tasks) : all_tasks[i].status = st})],
         total_pages_crawled |-> Len(all_tasks)]

\* A request for the statistics.
Stats == Answer(get_crawl_stats)

\* The members of TaskStatus in the order of their definition.
StatusOrder == <<PENDING, RUNNING, COMPLETED, FAILED, CANCELLED>>

\* Registries of up to MaxRecords tasks, all created at the same clock reading,
\* their statuses running through TaskStatus from any member on.
StatsRegistries ==
    {[t \in 1..n |-> Listed(t, StatusOrder[((t + r) % Len(StatusOrder)) + 1], 0)] :
        n \in 0..MaxRecords, r \in 0..(Len(StatusOrder) - 1)}

\* The service with such a registry, at rest.
InitStats ==
    /\ tasks \in StatsRegistries
    /\ request = [t \in DOMAIN tasks |-> Url(t)]
    /\ mode = [t \in DOMAIN tasks |-> "bg"]
    /\ pc = [t \in TaskIds |-> [k \in Slots |-> "idle"]]
    /\ dispatched = [t \in TaskIds |-> 0]
    /\ events = [t \in TaskIds |-> << >>]
    /\ now = MaxTime
    /\ cancel_ret = None
    /\ cancel_ok = {}
    /\ active_connections = {}
    /\ task_subscribers = << >>
    /\ loop = [c \in Conns |-> "new"]
    /\ bcast = [t \in TaskIds |-> [k \in Slots |-> None]]
    /\ received = [c \in Conns |-> << >>]
    /\ sent = None
    /\ response = None
    /\ crawler = "None"
    /\ client_id = [c \in Conns |-> None]

\* One request for the statistics of a registry at rest.
NextStats == response = None /\ Stats

SpecStats == InitStats /\ [][NextStats]_vars

\* ------------------------------------------------------------------ claims
Ids == DOMAIN tasks
Terminal == {COMPLETED, FAILED, CANCELLED}
AnyId == TaskIds \cup {UnknownId}

\* The events of a log that end a task: task_completed and task_error.
TerminalEvents(log) ==
    SelectSeq(log, LAMBDA e : e.type \in {"task_completed", "task_error"})

\* The 0.8 checkpoints of a log: one for each engine call that returned.
EngineReturns(log) ==
    SelectSeq(log, LAMBDA e : e.type = "task_update" /\ e.progress = 8)

\* The Running marks of a log: one for each execution that started.
RunningMarks(log) ==
    SelectSeq(log, LAMBDA e : e.type = "task_update" /\ e.progress = 1)

\* The step just taken was a cancel_task call for id t.
CancelCalled(t) == cancel_ret' # None /\ cancel_ret'[1].task_id = t

\* C1: once a task's status is Completed, Failed or Cancelled, no later step
\* changes its status, progress, result or error.
C1_TerminalFrozen ==
    [][\A t \in Ids :
        tasks[t].status \in Terminal =>
            /\ tasks'[t].status = tasks[t].status
            /\ tasks'[t].progress = tasks[t].progress
            /\ tasks'[t].result = tasks[t].result
            /\ tasks'[t].error = tasks[t].error]_vars

\* C2: once cancel has returned true for a task, no task_completed and no
\* task_error event is published for that task.
C2_NoTerminalEventAfterCancel ==
    [][\A t \in TaskIds :
        t \in cancel_ok => TerminalEvents(events'[t]) = TerminalEvents(events[t])]_vars

\* C3: for every task id, whatever the number of dispatches, at most one
\* execution marks the task Running and at most one engine call returns.
C3_AtMostOneExecution ==
    \A t \in TaskIds :
        /\ Len(RunningMarks(events[t])) <= 1
        /\ Len(EngineReturns(events[t])) <= 1

\* C4: a status change that starts from Pending ends in Running or Cancelled, and
\* one that starts from Running ends in Completed, Failed or Cancelled.
C4_StateMachine ==
    [][\A t \in Ids :
        tasks'[t].status # tasks[t].status =>
            /\ tasks[t].status = PENDING => tasks'[t].status \in {RUNNING, CANCELLED}
            /\ tasks[t].status = RUNNING =>
                   tasks'[t].status \in {COMPLETED, FAILED, CANCELLED}]_vars

\* A task went Pending -> Running -> Completed or Failed.
C4_Witness ==
    \E t \in Ids :
        /\ tasks[t].status \in {COMPLETED, FAILED}
        /\ Len(RunningMarks(events[t])) = 1
        /\ t \notin cancel_ok

\* C5: in every state the result of a task is present iff its status is Completed.
C5_ResultIffCompleted ==
    \A t \in Ids : (tasks[t].result # None) <=> (tasks[t].status = COMPLETED)

\* A task for which a cancel returned true and that is Completed with its result.
C5_Witness ==
    \E t \in Ids :
        /\ tasks[t].status = COMPLETED
        /\ tasks[t].result # None
        /\ t \in cancel_ok

\* C6: in every state the error of a task is present iff its status is Failed.
C6_ErrorIffFailed ==
    \A t \in Ids : (tasks[t].error # None) <=> (tasks[t].status = FAILED)

\* A task for which a cancel returned true and that is Failed with its error.
C6_Witness ==
    \E t \in Ids :
        /\ tasks[t].status = FAILED
        /\ tasks[t].error # None
        /\ t \in cancel_ok

\* C7: in every state the progress of a task is 1.0 iff its status is Completed.
C7_FullProgressIffCompleted ==
    \A t \in Ids : (tasks[t].progress = 10) <=> (tasks[t].status = COMPLETED)

\* A task that failed after the 0.8 checkpoint: terminal, and short of 1.0.
C7_Witness ==
    \E t \in Ids :
        /\ tasks[t].status = FAILED
        /\ tasks[t].progress = 8

\* C8: the progress of a task never decreases: from 0 it moves through the
\* checkpoints 0.1, 0.3, 0.8 and 1.0, in that order.
C8_ProgressOrder ==
    [][\A t \in Ids :
        tasks'[t].progress # tasks[t].progress =>
            <<tasks[t].progress, tasks'[t].progress>>
                \in {<<0, 1>>, <<1, 3>>, <<3, 8>>, <<8, 10>>}]_vars

\* A task at progress 1.0 whose log shows the three checkpoints before it.
C8_Witness ==
    \E t \in Ids :
        /\ tasks[t].progress = 10
        /\ Len(events[t]) = 4
        /\ events[t][1].progress = 1
        /\ events[t][2].progress = 3
        /\ events[t][3].progress = 8

\* C9: cancel on a Pending or Running task returns true, and the get that
\* follows it shows status Cancelled with result and error absent.
C9_CancelActive ==
    [][\A t \in Ids :
        (CancelCalled(t) /\ tasks[t].status \in {PENDING, RUNNING}) =>
            /\ cancel_ret'[1].ret = TRUE
            /\ get_task(t)' # None
            /\ get_task(t)'[1].status = CANCELLED
            /\ get_task(t)'[1].result = None
            /\ get_task(t)'[1].error = None]_vars

\* The state right after a cancel of a Running task returned true.
C9_Witness ==
    \E t \in Ids :
        /\ cancel_ret = Some([task_id |-> t, ret |-> TRUE])
        /\ tasks[t].status = CANCELLED
        /\ tasks[t].progress > 0

\* C10: cancel on an unknown id or on a Completed, Failed or Cancelled task
\* returns false and leaves every field of every record as it was.
C10_CancelRefused ==
    [][\A t \in AnyId :
        (CancelCalled(t) /\ (t \notin Ids \/ tasks[t].status \in Terminal)) =>
            /\ cancel_ret'[1].ret = FALSE
            /\ tasks' = tasks]_vars

\* The state right after a cancel of a terminal task returned false, at a clock
\* reading later than the record's last update.
C10_Witness ==
    \E t \in Ids :
        /\ cancel_ret = Some([task_id |-> t, ret |-> FALSE])
        /\ tasks[t].status \in Terminal
        /\ tasks[t].updated_at < now

\* C11: in every state the completion timestamp of a task is set iff its status
\* is Completed, Failed or Cancelled; a successful cancel stamps it too.
C11_CompletedAtIffTerminal ==
    \A t \in Ids : (tasks[t].completed_at # None) <=> (tasks[t].status \in Terminal)

C13_EngineRaiseFails ==
    [][\A t \in Ids :
        (pc[t][1] = "L112" /\ pc'[t][1] = "L163" /\ t \notin cancel_ok) =>
            /\ tasks'[t].status = FAILED
            /\ tasks'[t].error # None
            /\ tasks'[t].error # Some("")
            /\ tasks'[t].error_details # None
            /\ tasks'[t].completed_at # None
            /\ tasks'[t].result = None]_vars

\* C14: a task whose engine call returned an object that reports a failure never
\* ends Completed.
C14_NonSuccessNeverCompleted ==
    \A t \in Ids :
        tasks[t].status = COMPLETED =>
            tasks[t].result # Some(_convert_result("error_page", request[t]))

\* The events of a log that are about task t.
ForTask(log, t) == SelectSeq(log, LAMBDA e : e.task_id = t)

\* The number of copies of event e in a log.
Copies(log, e) == Cardinality({i \in 1..Len(log) : log[i] = e})

\* The step just taken ended the broadcast that execution k of task t was
\* suspended in (and did not cancel the execution).
BroadcastEnds(t, k) == bcast[t][k] # None /\ bcast'[t][k] = None /\ pc' = pc

\* In the step just taken some broadcast began a send to client c.
BeginsSend(c) ==
    \E t \in TaskIds, k \in Slots :
        /\ bcast'[t][k] # None
        /\ bcast'[t][k][1].cur = c
        /\ bcast[t][k] = None \/ bcast[t][k][1].cur # c

\* C15: a task for target T that runs uncancelled against an engine that
\* succeeds ends Completed with progress 1.0 and result.url = T, and a connection
\* subscribed to it from its first event on has received exactly
\* task_update(0.1), task_update(0.3), task_update(0.8), task_completed, in
\* that order.
C15_ScenarioA ==
    \A t \in Ids :
        (/\ pc[t][1] = "done"
         /\ t \notin cancel_ok
         /\ tasks[t].result = Some(_convert_result("page", request[t]))) =>
            /\ tasks[t].status = COMPLETED
            /\ tasks[t].progress = 10
            /\ tasks[t].result[1].url = Url(t)
            /\ \A c \in Conns :
                (/\ c \in active_connections
                 /\ t \in DOMAIN task_subscribers
                 /\ c \in task_subscribers[t]
                 /\ ForTask(received[c], t) # << >>
                 /\ ForTask(received[c], t)[1].type = "task_update"
                 /\ ForTask(received[c], t)[1].progress = 1) =>
                    ForTask(received[c], t) =
                        << [type |-> "task_update", task_id |-> t,
                            status |-> RUNNING, progress |-> 1],
                           [type |-> "task_update", task_id |-> t,
                            status |-> RUNNING, progress |-> 3],
                           [type |-> "task_update", task_id |-> t,
                            status |-> RUNNING, progress |-> 8],
                           [type |-> "task_completed", task_id |-> t,
                            result |-> tasks[t].result] >>

\* C16: a publish during which no send failed and the subscribers of the task
\* did not change has, when it ends, delivered its event exactly once to each
\* connection subscribed at the call and to no other client; a publish that
\* finds no subscribed connection delivers nothing.
C16_PublishExactlyOnce ==
    [][\A t \in TaskIds :
        /\ \A k \in Slots :
            (BroadcastEnds(t, k) /\ bcast[t][k][1].clean /\ sent' = None) =>
                \A c \in Conns :
                    Copies(received'[c], bcast[t][k][1].msg) =
                        IF c \in Reachable(Hub, t) THEN 1 ELSE 0
        /\ (events'[t] # events[t] /\ bcast'[t] = bcast[t]) =>
                received' = received]_vars

\* A publish reached both of two subscribed connections, once each, and a
\* client that is not subscribed got nothing.
C16_Witness ==
    \E t \in TaskIds : \E c \in Conns : \E d \in Conns \ {c} :
        /\ bcast[t][1] = None
        /\ Len(events[t]) = 1
        /\ t \in DOMAIN task_subscribers
        /\ {c, d} \subseteq task_subscribers[t] \cap active_connections
        /\ received[c] = events[t]
        /\ received[d] = events[t]

\* C17: when a publish (with no other change to the task's subscribers) ends in
\* the step in which a send of it failed, every other connection subscribed at
\* the call has the event.
C17_FailureIsolated ==
    [][\A t \in TaskIds, k \in Slots :
        (/\ BroadcastEnds(t, k)
         /\ bcast[t][k][1].clean
         /\ sent' = Some(bcast[t][k][1].cur)) =>
            \A c \in Reachable(Hub, t) \ {bcast[t][k][1].cur} :
                Copies(received'[c], bcast[t][k][1].msg) = 1]_vars

\* C18: a failed send to a client, in a publish or in a direct reply, leaves the
\* hub as disconnect of that client would: the client is in no subscriber set
\* and not in the connection table.
C18_SendFailureDisconnects ==
    [][\A c \in Conns :
        sent' = Some(c) =>
            /\ Hub' = disconnect(Hub, c)
            /\ c \notin active_connections'
            /\ \A t \in DOMAIN task_subscribers' : c \notin task_subscribers'[t]]_vars

\* The state right after a send to a subscribed client failed, another client
\* being still subscribed.
C18_Witness ==
    \E c \in Conns :
        /\ sent = Some(c)
        /\ loop[c] = "open"
        /\ \E t \in DOMAIN task_subscribers : task_subscribers[t] # {}

\* C19: disconnect of a client (by the endpoint, or after a failed send) leaves
\* it in no subscriber set and out of the connection table, and from then on no
\* publish begins a send to it.
C19_DisconnectedGetsNothing ==
    [][\A c \in Conns :
        /\ ((loop[c] = "open" /\ loop'[c] = "closed") \/ sent' = Some(c)) =>
                /\ c \notin active_connections'
                /\ \A t \in DOMAIN task_subscribers' : c \notin task_subscribers'[t]
        /\ (loop[c] # "new" /\ c \notin active_connections) =>
                /\ c \notin active_connections'
                /\ ~BeginsSend(c)]_vars

\* A client that had subscribed has left, and an event published for the task
\* has reached another client and not it.
C19_Witness ==
    \E c \in Conns : \E d \in Conns \ {c} :
        /\ loop[c] = "closed"
        /\ received[c] = << >>
        /\ received[d] # << >>

\* C20: subscribe_to_task applied twice gives the hub it gives applied once,
\* likewise unsubscribe_from_task, and unsubscribe_from_task of a pair that is
\* not subscribed gives the hub it was applied to.
C20_Idempotent ==
    \A c \in Conns, t \in Topics :
        /\ subscribe_to_task(subscribe_to_task(Hub, c, t), c, t)
               = subscribe_to_task(Hub, c, t)
        /\ unsubscribe_from_task(unsubscribe_from_task(Hub, c, t), c, t)
               = unsubscribe_from_task(Hub, c, t)
        /\ (t \notin DOMAIN task_subscribers \/ c \notin task_subscribers[t]) =>
               unsubscribe_from_task(Hub, c, t) = Hub

\* Two clients are subscribed to one task and one of them to another task too.
C20_Witness ==
    \E c \in Conns : \E d \in Conns \ {c} : \E t \in Topics : \E u \in Topics \ {t} :
        /\ t \in DOMAIN task_subscribers
        /\ u \in DOMAIN task_subscribers
        /\ {c, d} \subseteq task_subscribers[t]
        /\ c \in task_subscribers[u]
        /\ d \notin task_subscribers[u]

\* C21: a connection that is subscribed to a task and connected from the call of
\* a publish to its end has, at the end, received the event exactly once,
\* whatever other clients subscribed, unsubscribed or disconnected meanwhile.
C21_StayedGetsEvent ==
    [][\A t \in TaskIds, k \in Slots :
        (BroadcastEnds(t, k) /\ sent' = None) =>
            \A c \in bcast[t][k][1].stayed :
                Copies(received'[c], bcast[t][k][1].msg) = 1]_vars

\* C22: no step of the hub path (a send of a publish that returns or raises, a
\* publish cut short by an exception, a client's subscription handling) changes
\* a task's record or the position of its execution; what the task ends as is
\* decided by the executor's own steps alone.
C22_HubNeverFailsExecution ==
    [][\A t \in TaskIds, k \in Slots :
        (bcast[t][k] # None /\ bcast'[t][k] # bcast[t][k]) =>
            /\ pc'[t][k] = pc[t][k]
            /\ tasks' = tasks]_vars

\* A publish of the final event of a completed task has just been ended by a
\* failed send to a client that is waiting for a reply.
C22_Witness ==
    \E t \in Ids : \E c \in Conns :
        /\ sent = Some(c)
        /\ loop[c] = "reply"
        /\ pc[t][1] = "L146"
        /\ bcast[t][1] = None
        /\ tasks[t].status = COMPLETED

\* C23: under the event loop's scheduling, with the engine call returning and
\* with one subscribed client to which a send never completes, every submitted
\* task eventually reaches a terminal status.
C23_NoStall ==
    \A t \in TaskIds :
        (t \in Ids) ~> (t \in Ids /\ tasks[t].status \in Terminal)

\* C24: a synchronous wait that times out leaves the task's record as it is;
\* until its handler runs the status can only become Cancelled; the handler,
\* finding the task Pending or Running, has cancel accepted and leaves it
\* Cancelled; and a Cancelled task whose wait timed out never changes again.
C24_TimeoutCancels ==
    [][\A t \in Ids :
        /\ (pc[t][1] # "L530" /\ pc'[t][1] = "L530") =>
                tasks'[t] = tasks[t]
        /\ (pc[t][1] = "L530" /\ tasks[t].status \in Cancellable) =>
                tasks'[t].status \in {tasks[t].status, CANCELLED}
        /\ (/\ pc[t][1] = "L530"
            /\ pc'[t][1] = "timed_out"
            /\ tasks[t].status \in Cancellable) =>
                /\ tasks'[t].status = CANCELLED
                /\ cancel_ret' = Some([task_id |-> t, ret |-> TRUE])
        /\ (pc[t][1] = "timed_out" /\ tasks[t].status = CANCELLED) =>
                tasks'[t] = tasks[t]]_vars

\* A wait timed out on a Running task, the handler's cancel was accepted, and a
\* later cancel request found the task Cancelled and was refused.
C24_Witness ==
    \E t \in Ids :
        /\ pc[t][1] = "timed_out"
        /\ t \in cancel_ok
        /\ tasks[t].status = CANCELLED
        /\ cancel_ret = Some([task_id |-> t, ret |-> FALSE])

\* C25: the handler of a timed-out wait answers Timeout only for a task that
\* it leaves Cancelled; it never finds the task Completed or Failed.
C25_TimeoutOnlyIfCancelled ==
    [][\A t \in Ids :
        (pc[t][1] = "L530" /\ pc'[t][1] = "timed_out") =>
            /\ tasks[t].status \notin {COMPLETED, FAILED}
            /\ tasks'[t].status = CANCELLED]_vars

\* The tasks of the registry that the status filter of list answer r selects.
Matching(r) ==
    {t \in Ids : Filters(r.status) => tasks[t].status = r.status[1]}

\* C26: the page a list request returns is the stretch offset .. offset+limit-1
\* of the matching tasks put newest first: it has the length of that stretch,
\* holds matching records of the registry, none twice, and the record at
\* position p has fewer than p matching tasks newer than it and at least p that
\* are not older.
C26_ListPage ==
    (response # None /\ response[1].call = "list") =>
        LET r == response[1]
            page == r.tasks
            n == Cardinality(Matching(r))
            count == IF n <= r.offset THEN 0
                     ELSE IF n - r.offset < r.limit THEN n - r.offset ELSE r.limit
            Newer(x) == Cardinality({t \in Matching(r) :
                                        tasks[t].created_at > x.created_at})
            NotOlder(x) == Cardinality({t \in Matching(r) :
                                        tasks[t].created_at >= x.created_at})
        IN  /\ Len(page) = count
            /\ \A i \in 1..Len(page) :
                /\ page[i].task_id \in Matching(r)
                /\ page[i] = tasks[page[i].task_id]
                /\ Newer(page[i]) < r.offset + i
                /\ r.offset + i <= NotOlder(page[i])
                /\ \A j \in 1..Len(page) :
                    i # j => page[i].task_id # page[j].task_id

\* A filtered request with an offset, answered from a registry that holds a
\* newer matching task (skipped), the older one returned, and a task that does
\* not match.
C26_Witness ==
    /\ response # None
    /\ response[1].call = "list"
    /\ response[1].status = Some(COMPLETED)
    /\ response[1].offset = 1
    /\ Len(response[1].tasks) = 1
    /\ Ids \ Matching(response[1]) # {}
    /\ \E t \in Matching(response[1]) :
        tasks[t].created_at > response[1].tasks[1].created_at

\* C27: has_more is true exactly when the page holds limit tasks; it is true
\* whenever matching tasks lie beyond the page, and true as well when the page
\* is full and ends at the last matching task.
C27_HasMore ==
    (response # None /\ response[1].call = "list") =>
        LET r == response[1]
            n == Cardinality(Matching(r))
        IN  /\ r.has_more = (Len(r.tasks) = r.limit)
            /\ n > r.offset + Len(r.tasks) => r.has_more
            /\ n = r.offset + r.limit => r.has_more

\* A full page that ends at the last matching task: has_more is true and a
\* request for the next page gets nothing.
C27_Witness ==
    /\ response # None
    /\ response[1].call = "list"
    /\ response[1].has_more
    /\ Cardinality(Matching(response[1])) = response[1].offset + response[1].limit
    /\ response[1].offset > 0

\* C28: a request for a task's result, or for its download, leaves the
\* registry as it is; it answers 200 with the task's result exactly when the
\* task exists, is Completed and has a result, 404 for an unknown id, and 400
\* for a task that is Pending, Running, Failed or Cancelled.
C28_ResultOnlyWhenCompleted ==
    [][\A t \in AnyId :
        (/\ response' # None
         /\ response'[1].call \in {"result", "download"}
         /\ response'[1].task_id = t) =>
            LET r == response'[1] IN
            /\ tasks' = tasks
            /\ (r.code = 200) <=> (/\ t \in Ids
                                   /\ tasks[t].status = COMPLETED
                                   /\ tasks[t].result # None)
            /\ r.code = 200 =>
                r.content \in {<<"json", tasks[t].result[1]>>,
                               <<"file", <<"json", tasks[t].result[1]>>>>}
            /\ t \notin Ids => r.code = 404
            /\ (t \in Ids /\ tasks[t].status # COMPLETED) => r.code = 400]_vars

\* A download answered with the result of a Completed task.
C28_Witness ==
    /\ response # None
    /\ response[1].call = "download"
    /\ response[1].code = 200
    /\ response[1].task_id \in Ids
    /\ tasks[response[1].task_id].status = COMPLETED

\* C29: a batch request for n urls that is answered with its task ids, or that
\* stores anything, adds n records under n ids that were not in the registry,
\* leaves the other records as they were, and each new record is retrievable,
\* Pending with progress 0, and has one execution dispatched.
C29_BatchCreatesAll ==
    [][(/\ response' # None
        /\ response'[1].call = "batch"
        /\ (response'[1].code = 200 \/ DOMAIN tasks' # DOMAIN tasks)) =>
        LET new == DOMAIN tasks' \ DOMAIN tasks IN
        /\ Cardinality(new) = Len(response'[1].urls)
        /\ \A t \in DOMAIN tasks : tasks'[t] = tasks[t]
        /\ \A t \in new :
            /\ tasks'[t].task_id = t
            /\ tasks'[t].status = PENDING
            /\ tasks'[t].progress = 0
            /\ dispatched'[t] = 1
            /\ pc'[t][1] = "queued"]_vars

\* C30: a malformed inbound message (not JSON, not an object, unknown type, bad
\* data) gets one error reply sent to its sender, changes no subscription, and
\* leaves the sender in the connection table with its endpoint receiving.
C30_MalformedGetsError ==
    [][(response' # None /\ response'[1].call = "ws") =>
        LET c == response'[1].client IN
        /\ response'[1].reply # None
        /\ response'[1].reply[1].type = "error"
        /\ task_subscribers' = task_subscribers
        /\ active_connections' = active_connections
        /\ c \in active_connections'
        /\ loop'[c] = "reply"]_vars

\* C31: a subscribe_task message with a task id puts its sender into that
\* task's subscriber set, changes no other set, and is answered with the
\* subscribed ack; one without a task id is answered with an error ack and
\* leaves the subscriber table as it was.
C31_SubscribeAck ==
    [][(response' # None /\ response'[1].call = "subscribe_task") =>
        LET r == response'[1] IN
        IF r.task_id = None
        THEN /\ r.reply = Some("error")
             /\ task_subscribers' = task_subscribers
        ELSE /\ r.reply = Some("subscribed")
             /\ r.task_id[1] \in DOMAIN task_subscribers'
             /\ r.client \in task_subscribers'[r.task_id[1]]
             /\ \A t \in DOMAIN task_subscribers' \ {r.task_id[1]} :
                    t \in DOMAIN task_subscribers
                    /\ task_subscribers'[t] = task_subscribers[t]]_vars

\* C32: a task id that get finds a record for is found by get after every step
\* of the program: a submission, an executor step, a cancel, a timed-out wait,
\* a read, a hub operation.
C32_NeverEvicts ==
    [][\A t \in AnyId :
        get_task(t) # None => (t \in DOMAIN tasks' /\ get_task(t)' # None)]_vars

\* A cancelled task, with clients subscribed to it, is still in the registry when
\* the list is read.
C32_Witness ==
    \E t \in Ids :
        /\ tasks[t].status = CANCELLED
        /\ t \in DOMAIN task_subscribers
        /\ response # None
        /\ response[1].call = "list"
        /\ response[1].tasks = <<tasks[t]>>

\* The step is one of task a: a step of its execution, a cancel of it, or the
\* end of a send of one of its publishes.
Concerns(a) ==
    \/ pc'[a] # pc[a]
    \/ CancelCalled(a)
    \/ \E k \in Slots :
        /\ bcast[a][k] # None
        /\ \/ bcast'[a][k] = None
           \/ bcast'[a][k][1].seen # bcast[a][k][1].seen

\* The connections subscribed to task t in subscriber table S.
SubscribersOf(S, t) == IF t \in DOMAIN S THEN S[t] ELSE {}

RECURSIVE SumOf(_)
SumOf(f) ==
    IF DOMAIN f = {} THEN 0
    ELSE LET st == CHOOSE x \in DOMAIN f : TRUE
         IN  f[st] + SumOf([x \in DOMAIN f \ {st} |-> f[x]])

\* C34: the statistics count the whole registry: total_tasks is the number of
\* records, each status is counted as often as records have it, and the counts
\* add up to the number of records.
C34_StatsCountAll ==
    (response # None /\ response[1].call = "stats") =>
        LET r == response[1] IN
        /\ r.total_tasks = Cardinality(DOMAIN tasks)
        /\ SumOf(r.status_breakdown) = Cardinality(DOMAIN tasks)
        /\ \A st \in TaskStatus :
              Cardinality({t \in DOMAIN tasks : tasks[t].status = st}) =
                 (IF st \in DOMAIN r.status_breakdown THEN r.status_breakdown[st] ELSE 0)

\* C35: no task id maps to an empty subscriber set, and a step that removes
\* the last subscriber of a task - an unsubscribe, a disconnect, a failed send -
\* deletes the task's entry from the subscriber table and leaves the task's
\* record in the registry as it is.
C35_LastSubscriberLeaves ==
    /\ [](\A t \in DOMAIN task_subscribers : task_subscribers[t] # {})
    /\ [][\A t \in DOMAIN task_subscribers, c \in Conns :
            (/\ task_subscribers[t] = {c}
             /\ c \notin SubscribersOf(task_subscribers', t))
            => /\ t \notin DOMAIN task_subscribers'
               /\ t \in DOMAIN tasks => (t \in DOMAIN tasks' /\ tasks'[t] = tasks[t])]_vars

\* A client that received an event of a running task has left, and the task,
\* still in the registry, has no entry in the subscriber table.
C35_Witness ==
    \E t \in Ids, c \in Conns :
        /\ tasks[t].status = RUNNING
        /\ loop[c] = "closed"
        /\ received[c] # << >>
        /\ t \notin DOMAIN task_subscribers

\* C36: a task whose execution has been dispatched comes to a terminal status
\* and from some point on stays in one; it is not Pending or Running forever.
C36_EventuallyTerminal ==
    \A t \in TaskIds :
        (dispatched[t] > 0) ~> [](t \in DOMAIN tasks /\ tasks[t].status \in Terminal)

\* A task whose events a client received has ended, its executor has returned
\* and every send is over.
C36_Witness ==
    \E t \in Ids, c \in Conns :
        /\ dispatched[t] > 0
        /\ pc[t][1] = "done"
        /\ tasks[t].status \in Terminal
        /\ Len(received[c]) > 1
        /\ bcast[t][1] = None

\* C37: of a task dispatched once at most one terminal event (task_completed
\* or task_error) is published, and no task_update is published after it.
C37_OneTerminalEventLast ==
    \A t \in TaskIds :
        dispatched[t] <= 1 =>
            /\ Len(TerminalEvents(events[t])) <= 1
            /\ \A i \in 1..Len(events[t]), j \in 1..Len(events[t]) :
                  (i < j /\ events[t][i].type \in {"task_completed", "task_error"})
                      => events[t][j].type # "task_update"

\* An execution that was cancelled on its way has published its three updates
\* and then task_completed, and has returned.
C37_Witness ==
    \E t \in TaskIds :
        /\ dispatched[t] = 1
        /\ t \in cancel_ok
        /\ pc[t][1] = "done"
        /\ Len(events[t]) = 4
        /\ events[t][4].type = "task_completed"

\* C38: every connection id in a task's subscriber set is in the table of
\* active connections.
C38_SubscribersAreActive ==
    \A t \in DOMAIN task_subscribers : task_subscribers[t] \subseteq active_connections

\* C39: an execution that is in the engine call (past the broadcast of the
\* 0.3 checkpoint) uses a handle whose start has returned.
C39_EngineStarted ==
    \A t \in DOMAIN pc, k \in Slots :
        (pc[t][k] = "L112" /\ bcast[t][k] = None) => crawler = "started"

\* C40: two endpoints that are live at the same time - accepted, and not yet
\* left - have different client ids, so that connect has not written the table
\* entry of one under the id of the other.
C40_DistinctLiveIds ==
    \A e \in Conns, d \in Conns :
        (e # d /\ loop[e] \in Live /\ loop[d] \in Live) => client_id[e] # client_id[d]

====
